---------------------------- MODULE Spec2Model ----------------------------
(***************************************************************************)
(* Tilenga Fiscal Sensitivity Dashboard: the Streamlit script              *)
(* src/Tilenga_Fiscal_Sensitivity_Dashboard.py as a state machine.         *)
(*                                                                         *)
(* The script is re-executed top to bottom on every widget interaction.    *)
(* One run is the sequence of steps Fetch (lines 24-34), Inputs (39-49),   *)
(* Compute (54-77), Display (82-102), Export (107-154); `pc` is the        *)
(* script's position.  The session keeps the widget values between runs.   *)
(*                                                                         *)
(* Numbers.  The script computes in Python ints and IEEE doubles.  The     *)
(* model computes the same expressions in exact rational arithmetic        *)
(* (section "Exact arithmetic"), with the IEEE special values inf, -inf    *)
(* and nan where a double division by zero or a failed root search         *)
(* produces them.  Rounding error of the doubles is not modelled.          *)
(***************************************************************************)
EXTENDS Integers, Sequences, FiniteSets, TLC

(***************************************************************************)
(* Exact arithmetic, part 1: natural numbers of any size.                  *)
(* A natural is a sequence of limbs, least significant first, no leading   *)
(* zero limb; <<>> is 0.  (TLC's own integers are 32 bits wide.)           *)
(***************************************************************************)
Base == 10 * 1000

RECURSIVE NatToBig(_)
NatToBig(n) == IF n = 0 THEN <<>> ELSE <<n % Base>> \o NatToBig(n \div Base)

RECURSIVE BAddC(_, _, _)
BAddC(a, b, c) ==
  IF a = <<>> /\ b = <<>> THEN (IF c = 0 THEN <<>> ELSE <<c>>)
  ELSE IF a = <<>> THEN (IF c = 0 THEN b ELSE BAddC(<<c>>, b, 0))
  ELSE IF b = <<>> THEN (IF c = 0 THEN a ELSE BAddC(a, <<c>>, 0))
  ELSE LET x == a[1] + b[1] + c
       IN  <<x % Base>> \o BAddC(Tail(a), Tail(b), x \div Base)

BAdd(a, b) == BAddC(a, b, 0)

\* -1, 0, 1 as a < b, a = b, a > b
RECURSIVE BCmpAt(_, _, _)
BCmpAt(a, b, i) ==
  IF i = 0 THEN 0
  ELSE IF a[i] < b[i] THEN -1
  ELSE IF a[i] > b[i] THEN 1
  ELSE BCmpAt(a, b, i - 1)

BCmp(a, b) ==
  IF Len(a) < Len(b) THEN -1
  ELSE IF Len(a) > Len(b) THEN 1
  ELSE BCmpAt(a, b, Len(a))

RECURSIVE BStrip(_)
BStrip(a) ==
  IF a = <<>> THEN <<>>
  ELSE IF a[Len(a)] = 0 THEN BStrip(SubSeq(a, 1, Len(a) - 1))
  ELSE a

\* a - b for a >= b, before the leading zeros are stripped
RECURSIVE BSubC(_, _, _)
BSubC(a, b, c) ==
  IF a = <<>> THEN <<>>
  ELSE LET x == a[1] - (IF b = <<>> THEN 0 ELSE b[1]) - c
       IN  IF b = <<>> /\ x >= 0 THEN <<x>> \o Tail(a)
           ELSE <<(x + Base) % Base>>
                  \o BSubC(Tail(a), IF b = <<>> THEN <<>> ELSE Tail(b),
                           IF x < 0 THEN 1 ELSE 0)

BSub(a, b) == BStrip(BSubC(a, b, 0))

\* a * m + c for 0 <= m, c < Small
RECURSIVE BMulSmallC(_, _, _)
BMulSmallC(a, m, c) ==
  IF a = <<>> THEN NatToBig(c)
  ELSE LET x == a[1] * m + c
       IN  <<x % Base>> \o BMulSmallC(Tail(a), m, x \div Base)

BMulSmall(a, m) == IF m = 0 THEN <<>> ELSE BMulSmallC(a, m, 0)

\* a * b, limb by limb of b from the most significant: acc is a times the
\* limbs of b above the i-th
RECURSIVE BMulAcc(_, _, _, _)
BMulAcc(a, b, i, acc) ==
  IF i = 0 THEN acc
  ELSE LET next == BAdd(BMulSmall(a, b[i]), IF acc = <<>> THEN <<>> ELSE <<0>> \o acc)
       IN  IF next = <<>> THEN BMulAcc(a, b, i - 1, <<>>)
           ELSE BMulAcc(a, b, i - 1, next)

BMul(a, b) ==
  IF a = <<>> \/ b = <<>> THEN <<>>
  ELSE IF Len(a) < Len(b) THEN BMulAcc(b, a, Len(a), <<>>)
  ELSE BMulAcc(a, b, Len(b), <<>>)

\* a * n for any TLC natural n
BMulNat(a, n) == IF n < Base THEN BMulSmall(a, n) ELSE BMul(a, NatToBig(n))

\* the remainder of a by a limb-sized m > 0
RECURSIVE BModSmallAt(_, _, _, _)
BModSmallAt(a, m, i, r) ==
  IF i = 0 THEN r ELSE BModSmallAt(a, m, i - 1, (r * Base + a[i]) % m)

BModSmall(a, m) == BModSmallAt(a, m, Len(a), 0)

\* the quotient of a by a limb-sized m > 0, most significant limb first
RECURSIVE BDivSmallAt(_, _, _, _)
BDivSmallAt(a, m, i, r) ==
  IF i = 0 THEN <<>>
  ELSE LET x == r * Base + a[i]
       IN  BDivSmallAt(a, m, i - 1, x % m) \o <<x \div m>>

BDivSmall(a, m) == BStrip(BDivSmallAt(a, m, Len(a), 0))


(***************************************************************************)
(* Exact arithmetic, part 2: rational numbers.                             *)
(* A rational is [s, n, d]: sign s in {-1, 0, 1}, magnitude of the         *)
(* numerator n (a natural as above) and denominator d given by its prime   *)
(* factorisation, a function from primes to positive exponents.  Every     *)
(* denominator of this program is a product of small primes: the script    *)
(* divides only by 100, by 1e6 and by powers of 1 + rate.  Values are kept *)
(* in lowest terms, so equal numbers are equal values.                     *)
(***************************************************************************)
Small == 2 * 10^5

NoFactors == [p \in {} |-> 0]

\* f itself.  (Comparing a function makes TLC tabulate it, once, instead of
\* re-evaluating the expression that built it at every application.)
Tab(f) == IF f = NoFactors THEN NoFactors ELSE f

Exp(f, p) == IF p \in DOMAIN f THEN f[p] ELSE 0

Max(x, y) == IF x >= y THEN x ELSE y

\* the integer square root of a TLC natural n >= 1: the thousand it lies in,
\* then the root itself
Isqrt(n) ==
  LET h == CHOOSE k \in 0..46 : (k + 1) * 1000 > n \div ((k + 1) * 1000)
  IN  CHOOSE r \in (h * 1000)..(h * 1000 + 999) : r * r <= n /\ r + 1 > n \div (r + 1)

\* the exponent of the prime p in n >= 1
Multiplicity(n, p) ==
  CHOOSE e \in 0..31 : n % p^e = 0 /\ (p^e > n \div p \/ n % p^(e + 1) # 0)

\* the prime factorisation of a TLC natural n >= 1, by trial division: the
\* prime divisors up to the square root, and the one prime cofactor above it
Factor(n) ==
  LET D  == {p \in 2..Isqrt(n) : n % p = 0}
      P  == {p \in D : \A q \in D : q = p \/ p % q # 0}
      Ls == {c \in {n \div d : d \in D \cup {1}} : c > 1 /\ \A p \in P : c % p # 0}
  IN  Tab([q \in P \cup Ls |-> IF q \in P THEN Multiplicity(n, q) ELSE 1])

\* <<j, p^j>> for the largest j <= e with p^j < Small, from <<i, q>> = <<i, p^i>>
RECURSIVE PowerBelow(_, _, _, _)
PowerBelow(p, e, i, q) ==
  IF i < e /\ q < Small \div p THEN PowerBelow(p, e, i + 1, q * p) ELSE <<i, q>>

\* n * p^e, for a prime p < Small, a few powers of p at a time
RECURSIVE BMulPow(_, _, _)
BMulPow(n, p, e) ==
  IF e = 0 \/ n = <<>> THEN n
  ELSE LET c == PowerBelow(p, e, 1, p)
       IN  BMulPow(BMulSmall(n, c[2]), p, e - c[1])

\* n * the number whose factorisation is f
RECURSIVE BMulFac(_, _)
BMulFac(n, f) ==
  IF DOMAIN f = {} THEN n
  ELSE LET p == CHOOSE q \in DOMAIN f : TRUE
       IN  BMulFac(BMulPow(n, p, f[p]), Tab([q \in DOMAIN f \ {p} |-> f[q]]))

\* <<n', e'>>: n and p^e with their common powers of p cancelled
RECURSIVE Cancel(_, _, _)
Cancel(n, p, e) ==
  IF e = 0 \/ BModSmall(n, p) # 0 THEN <<n, e>>
  ELSE Cancel(BDivSmall(n, p), p, e - 1)

RECURSIVE ReduceOver(_, _, _, _)
ReduceOver(s, n, d, ps) ==
  IF ps = {} THEN [s |-> s, n |-> n, d |-> d]
  ELSE LET p == CHOOSE q \in ps : TRUE
           c == Cancel(n, p, d[p])
       IN  ReduceOver(s, c[1],
                      Tab([q \in (IF c[2] = 0 THEN DOMAIN d \ {p} ELSE DOMAIN d)
                             |-> IF q = p THEN c[2] ELSE d[q]]),
                      ps \ {p})

Zero == [s |-> 0, n |-> <<>>, d |-> NoFactors]

Reduce(s, n, d) == IF n = <<>> \/ s = 0 THEN Zero ELSE ReduceOver(s, n, d, DOMAIN d)

RInt(i) ==
  IF i = 0 THEN Zero
  ELSE [s |-> IF i < 0 THEN -1 ELSE 1, n |-> NatToBig(IF i < 0 THEN -i ELSE i),
        d |-> NoFactors]

One == RInt(1)

RNeg(a) == [a EXCEPT !.s = -a.s]

Lcm(f, g) == Tab([p \in DOMAIN f \cup DOMAIN g |-> Max(Exp(f, p), Exp(g, p))])

\* the factorisation of l / f, for f dividing l
Cofactor(l, f) ==
  Tab([p \in {q \in DOMAIN l : l[q] > Exp(f, q)} |-> l[p] - Exp(f, p)])

\* the numerator's magnitude of a over the denominator l
Scaled(a, l) == BMulFac(a.n, Cofactor(l, a.d))

\* signed integers [s, n]: sign and magnitude
SInt(s, n) == IF n = <<>> \/ s = 0 THEN [s |-> 0, n |-> <<>>] ELSE [s |-> s, n |-> n]

SAdd(x, y) ==
  IF x.s = 0 THEN y
  ELSE IF y.s = 0 THEN x
  ELSE IF x.s = y.s THEN [s |-> x.s, n |-> BAdd(x.n, y.n)]
  ELSE LET c == BCmp(x.n, y.n)
       IN  IF c = 0 THEN [s |-> 0, n |-> <<>>]
           ELSE IF c > 0 THEN [s |-> x.s, n |-> BSub(x.n, y.n)]
           ELSE [s |-> y.s, n |-> BSub(y.n, x.n)]

RAdd(a, b) ==
  IF a.s = 0 THEN b
  ELSE IF b.s = 0 THEN a
  ELSE LET l == Lcm(a.d, b.d)
           t == SAdd(SInt(a.s, Scaled(a, l)), SInt(b.s, Scaled(b, l)))
       IN  Reduce(t.s, t.n, l)

RSub(a, b) == RAdd(a, RNeg(b))

RMul(a, b) ==
  IF a.s = 0 \/ b.s = 0 THEN Zero
  ELSE Reduce(a.s * b.s, BMul(a.n, b.n),
              Tab([p \in DOMAIN a.d \cup DOMAIN b.d |-> Exp(a.d, p) + Exp(b.d, p)]))

\* the TLC natural a natural of at most three limbs stands for
BigToNat(n) ==
  IF n = <<>> THEN 0
  ELSE IF Len(n) = 1 THEN n[1]
  ELSE IF Len(n) = 2 THEN n[1] + Base * n[2]
  ELSE n[1] + Base * (n[2] + Base * n[3])

\* 1 / a for a # 0 whose numerator is a TLC natural
RInv(a) == [s |-> a.s, n |-> BMulFac(<<1>>, a.d), d |-> Factor(BigToNat(a.n))]

RDiv(a, b) == RMul(a, RInv(b))

\* acc * n^k.  (Here and below an accumulator is tested before the recursive
\* call so that TLC computes it there and then.)
RECURSIVE BPowAcc(_, _, _)
BPowAcc(n, k, acc) == IF k = 0 \/ acc = <<>> THEN acc ELSE BPowAcc(n, k - 1, BMul(acc, n))

BPow(n, k) == BPowAcc(n, k, <<1>>)

\* a^k, k >= 0 (a power of a value in lowest terms is in lowest terms)
RPow(a, k) ==
  IF k = 0 THEN One
  ELSE IF a.s = 0 THEN Zero
  ELSE [s |-> IF a.s < 0 /\ k % 2 = 1 THEN -1 ELSE 1, n |-> BPow(a.n, k),
        d |-> Tab([p \in DOMAIN a.d |-> a.d[p] * k])]

\* -1, 0, 1 as a < b, a = b, a > b
RCmp(a, b) ==
  IF a.s # b.s THEN (IF a.s < b.s THEN -1 ELSE 1)
  ELSE IF a.s = 0 THEN 0
  ELSE LET l == Lcm(a.d, b.d) IN a.s * BCmp(Scaled(a, l), Scaled(b, l))

RLt(a, b) == RCmp(a, b) < 0
RLe(a, b) == RCmp(a, b) <= 0

\* m / 10^e as a rational: the decimal literal with e digits after the point
Dec(m, e) == RDiv(RInt(m), RPow(RInt(10), e))


\* the sum of a sequence of rationals, over their common denominator
RECURSIVE LcmAcc(_, _, _)
LcmAcc(vs, i, acc) ==
  IF i = 0 THEN acc
  ELSE LET next == Lcm(vs[i].d, acc)
       IN  IF next = NoFactors THEN LcmAcc(vs, i - 1, NoFactors)
           ELSE LcmAcc(vs, i - 1, next)

LcmAll(vs, i) == LcmAcc(vs, i, NoFactors)

\* the sum of the signed integers ts[lo..hi], by halves
RECURSIVE SSumAcc(_, _, _)
SSumAcc(ts, lo, hi) ==
  IF lo > hi THEN SInt(0, <<>>)
  ELSE IF lo = hi THEN ts[lo]
  ELSE LET mid == (lo + hi) \div 2
       IN  SAdd(SSumAcc(ts, lo, mid), SSumAcc(ts, mid + 1, hi))

RSum(vs) ==
  LET l == LcmAll(vs, Len(vs))
      ts == Tab([i \in 1..Len(vs) |-> SInt(vs[i].s, Scaled(vs[i], l))])
      t == SSumAcc(ts, 1, Len(vs))
  IN  Reduce(t.s, t.n, l)

RAbs(a) == [a EXCEPT !.s = IF a.s = 0 THEN 0 ELSE 1]

\* floor(n / the number whose factorisation is f), by dividing prime by prime
RECURSIVE BDivPow(_, _, _)
BDivPow(n, p, e) == IF e = 0 \/ n = <<>> THEN n ELSE BDivPow(BDivSmall(n, p), p, e - 1)

RECURSIVE BDivFac(_, _)
BDivFac(n, f) ==
  IF DOMAIN f = {} THEN n
  ELSE LET p == CHOOSE q \in DOMAIN f : TRUE
       IN  BDivFac(BDivPow(n, p, f[p]), Tab([q \in DOMAIN f \ {p} |-> f[q]]))

\* floor(a) for a >= 0, as a natural
RFloor(a) == BDivFac(a.n, a.d)

\* a >= 0 rounded to the nearest integer, a tie going to the even one
RoundHalfEven(a) ==
  LET twice == RMul(a, RInt(2))
      tie   == twice.d = NoFactors /\ twice.n # <<>> /\ twice.n[1] % 2 = 1
      up    == RFloor(RAdd(a, Dec(5, 1)))
  IN  IF tie /\ up[1] % 2 = 1 THEN BSub(up, <<1>>) ELSE up

(***************************************************************************)
(* Doubles: a finite value is [k |-> "num", v |-> rational]; the special   *)
(* values have k "inf", "-inf" or "nan".  numpy divides by zero without    *)
(* raising (it warns), and numpy_financial.irr returns nan when it finds   *)
(* no rate.                                                                *)
(***************************************************************************)
Num(r)  == [k |-> "num", v |-> r]
Inf     == [k |-> "inf", v |-> Zero]
NegInf  == [k |-> "-inf", v |-> Zero]
NaN     == [k |-> "nan", v |-> Zero]

IsNum(x) == x.k = "num"

FAdd(x, y) ==
  IF x.k = "nan" \/ y.k = "nan" THEN NaN
  ELSE IF x.k = "num" /\ y.k = "num" THEN Num(RAdd(x.v, y.v))
  ELSE IF x.k = "num" THEN y
  ELSE IF y.k = "num" THEN x
  ELSE IF x.k = y.k THEN x
  ELSE NaN

\* x / b**t for finite x and b and an integer t >= 0; 0.0**0 is 1.0
FDivPow(x, b, t) ==
  IF t = 0 THEN Num(x)
  ELSE IF b.s # 0 THEN Num(RMul(x, RPow(RInv(b), t)))
  ELSE IF x.s > 0 THEN Inf
  ELSE IF x.s < 0 THEN NegInf
  ELSE NaN

\* x * c for a finite c > 0
FScale(x, c) == IF IsNum(x) THEN Num(RMul(x.v, c)) ELSE x

RECURSIVE FSumAcc(_, _, _)
FSumAcc(xs, i, acc) ==
  IF i > Len(xs) \/ acc.k = "nan" THEN acc ELSE FSumAcc(xs, i + 1, FAdd(acc, xs[i]))

\* the sum of a sequence of doubles
FSum(xs) ==
  IF \A i \in 1..Len(xs) : IsNum(xs[i]) THEN Num(RSum(Tab([i \in 1..Len(xs) |-> xs[i].v])))
  ELSE FSumAcc(xs, 1, Num(Zero))


(***************************************************************************)
(* numpy and numpy_financial, as the script uses them.                     *)
(***************************************************************************)
\* np.arange(lo, hi): lo, lo+1, ..., hi-1
arange(lo, hi) == Tab([i \in 1..(hi - lo) |-> lo + i - 1])

\* A variant that makes one copy too few.
repeat_short(x, n) == Tab([i \in 1..(n - 1) |-> x])

\* np.repeat(x, n): n copies of the scalar x
repeat(x, n) == Tab([i \in 1..n |-> x])

\* A variant that discounts the first value too, as a spreadsheet's NPV() does.
npf_npv_spreadsheet(rate, values) ==
  FSum(Tab([i \in 1..Len(values) |-> FDivPow(values[i], RAdd(One, rate), i)]))

\* npf.npv(rate, values) = sum over t = 0..len-1 of values[t] / (1+rate)**t
npf_npv(rate, values) ==
  FSum(Tab([i \in 1..Len(values) |-> FDivPow(values[i], RAdd(One, rate), i - 1)]))

\* The grid the model gives npf.irr's result on: rates k / IrrGrid.
IrrGrid == 100

SMulNat(x, m) == SInt(x.s, BMulNat(x.n, m))
SMulBig(x, y) == SInt(x.s, BMul(x.n, y))

\* Horner's rule: with acc = sum over j > i of N[j] * a^(j-i-1) * b^(Len(N)-j)
\* and bp = b^(Len(N)-i-1), the sum over all j of N[j] * a^(j-1) * b^(Len(N)-j)
RECURSIVE Horner(_, _, _, _, _, _)
Horner(N, a, b, i, acc, bp) ==
  IF i = 0 THEN acc
  ELSE LET bq   == BMulNat(bp, b)
           next == SAdd(SMulNat(acc, a), SMulBig(N[i], bq))
       IN  IF next.s = 0 /\ bq = <<>> THEN next
           ELSE Horner(N, a, b, i - 1, next, bq)

\* the sign of the polynomial sum of values[t] * x^t at x = a / b (a, b > 0)
PolySign(values, a, b) ==
  LET l == LcmAll(values, Len(values))
      N == Tab([i \in 1..Len(values) |-> SInt(values[i].s, Scaled(values[i], l))])
  IN  Horner(N, a, b, Len(N) - 1, N[Len(N)], <<1>>).s

\* the signs of the nonzero entries among the first i
RECURSIVE SignsOf(_, _)
SignsOf(values, i) ==
  IF i = 0 THEN <<>>
  ELSE SignsOf(values, i - 1) \o (IF values[i].s = 0 THEN <<>> ELSE <<values[i].s>>)

\* Descartes' count: sign changes along the nonzero entries
SignChanges(values) ==
  LET sg == SignsOf(values, Len(values))
  IN  Cardinality({i \in 1..(Len(sg) - 1) : sg[i] # sg[i + 1]})

\* Whether the rate k / IrrGrid is at or below the root: the polynomial in
\* x = 1 / (1 + rate) has not yet taken the sign s0 it has as x -> 0.
AtOrBelowRoot(values, s0, k) == PolySign(values, IrrGrid, IrrGrid + k) * s0 <= 0

RECURSIVE Above(_, _, _)
Above(values, s0, k) ==
  IF AtOrBelowRoot(values, s0, k) THEN Above(values, s0, 2 * k) ELSE k

RECURSIVE Bisect(_, _, _, _)
Bisect(values, s0, lo, hi) ==
  IF hi - lo <= 1 THEN lo
  ELSE LET mid == lo + (hi - lo) \div 2
       IN  IF AtOrBelowRoot(values, s0, mid) THEN Bisect(values, s0, mid, hi)
           ELSE Bisect(values, s0, lo, mid)

\* npf.irr(values) (numpy_financial 1.0): the positive real roots x of
\* sum values[t] * x^t give the rates 1/x - 1; nan when there is none.  The
\* script's streams [-capex, cf, ..., cf] change sign at most once, so there
\* is at most one such root; the model returns it rounded down to the grid.
npf_irr(values) ==
  IF SignChanges(values) = 0 THEN NaN
  ELSE LET s0 == SignsOf(values, Len(values))[1]
           k  == IF AtOrBelowRoot(values, s0, 0)
                 THEN LET hi == Above(values, s0, IrrGrid)
                      IN  Bisect(values, s0, IF hi = IrrGrid THEN 0 ELSE hi \div 2, hi)
                 ELSE Bisect(values, s0, -IrrGrid, 0)
       IN  Num(RDiv(RInt(k), RInt(IrrGrid)))

(***************************************************************************)
(* The COMPUTATION block, lines 54-77, one operator per assignment.        *)
(* Widget values: production, capex and the rates are Python ints,         *)
(* oil_price and opex_per_bbl floats (rationals here).                     *)
(***************************************************************************)
days_per_year == 365

AnnualProduction(production) == production * days_per_year

Revenue(oil_price, annual_production) ==
  RDiv(RMul(oil_price, RInt(annual_production)), RInt(10^6))

OpexTotal(opex_per_bbl, annual_production) ==
  RDiv(RMul(opex_per_bbl, RInt(annual_production)), RInt(10^6))

Royalty(revenue, royalty_rate) == RDiv(RMul(revenue, RInt(royalty_rate)), RInt(100))

Depreciation(capex, depreciation_rate) == RDiv(RInt(capex * depreciation_rate), RInt(100))

ProfitBeforeTax(revenue, opex_total, depreciation, royalty) ==
  RSub(RSub(RSub(revenue, opex_total), depreciation), royalty)

\* A variant that charges no tax on a loss.
TaxFloored(profit_before_tax, tax_rate) ==
  IF profit_before_tax.s < 0 THEN Zero
  ELSE RDiv(RMul(profit_before_tax, RInt(tax_rate)), RInt(100))

Tax(profit_before_tax, tax_rate) == RDiv(RMul(profit_before_tax, RInt(tax_rate)), RInt(100))

AfterTaxProfit(profit_before_tax, tax) == RSub(profit_before_tax, tax)

\* A variant that forgets to add the depreciation back.
CashFlowNoAddBack(after_tax_profit, depreciation) == after_tax_profit

CashFlow(after_tax_profit, depreciation) == RAdd(after_tax_profit, depreciation)

Years(project_life) == arange(1, project_life + 1)

\* cash_flows / ((1 + discount_rate / 100) ** years), elementwise
DiscountedCashFlows(cash_flows, discount_rate, years) ==
  Tab([i \in 1..Len(cash_flows) |->
         FDivPow(cash_flows[i], RAdd(One, RDiv(RInt(discount_rate), RInt(100))), years[i])])

\* [-capex] + list(cash_flows)
Stream(capex, cash_flows) == <<RInt(-capex)>> \o cash_flows

\* A variant that compounds instead of discounting.
NpvCompounded(discount_rate, capex, cash_flows) ==
  LET values == Stream(capex, cash_flows)
      back == RInv(RAdd(One, RDiv(RInt(discount_rate), RInt(100))))
  IN  FSum(Tab([i \in 1..Len(values) |-> FDivPow(values[i], back, i - 1)]))

Npv(discount_rate, capex, cash_flows) ==
  npf_npv(RDiv(RInt(discount_rate), RInt(100)), Stream(capex, cash_flows))

\* A variant that leaves the rate a fraction.
IrrFraction(capex, cash_flows) == npf_irr(Stream(capex, cash_flows))

Irr(capex, cash_flows) == FScale(npf_irr(Stream(capex, cash_flows)), RInt(100))

(***************************************************************************)
(* Formatting and rounding.                                                *)
(***************************************************************************)
\* round(x, 2) of a finite x: to the nearest hundredth, ties to even
Round2(x) ==
  LET h == RoundHalfEven(RMul(RAbs(x), RInt(100)))
  IN  RDiv(Reduce(x.s, h, NoFactors), RInt(100))

\* f"{x:,.2f}" / f"{x:.2f}": "nan", "inf", "-inf", or the number to two places
Format2f(x) == IF IsNum(x) THEN Num(Round2(x.v)) ELSE x

(***************************************************************************)
(* The widgets of the sidebar, lines 40-49.                                *)
(***************************************************************************)
fallback_oil_price == Dec(6880, 2)          \* line 30
default_usd_to_ugx == 3800                  \* line 34
default_production == 200000                \* line 41
default_capex == 4000                       \* line 43
default_opex_per_bbl == Dec(120, 1)         \* line 44
DepreciationOptions == {10, 20, 25, 30}     \* line 45; the first is preselected
default_depreciation_rate == 10
RoyaltyRates == 5..15                       \* line 46
default_royalty_rate == 10
TaxRates == 25..35                          \* line 47
default_tax_rate == 30
DiscountRates == 5..15                      \* line 48
default_discount_rate == 10
ProjectLives == 5..20                       \* line 49
default_project_life == 10

(***************************************************************************)
(* What the environment supplies in the model: the prices and rates the    *)
(* two services answer with, and the values the user types or selects.     *)
(* number_input has no min_value or max_value, so any number can be typed; *)
(* a slider offers its range, of which the model tries both ends and the   *)
(* default.                                                                *)
(***************************************************************************)
FetchedPrices == {Dec(74996, 3)}
FetchedRates == {3700}
OilPriceInputs == {RInt(0), RInt(12)}
ProductionInputs == {0}
CapexInputs == {0, 100}
OpexInputs == {Dec(455, 1)}

Lowest(S) == CHOOSE x \in S : \A y \in S : x <= y
Highest(S) == CHOOSE x \in S : \A y \in S : x >= y
Stops(S, dflt) == {Lowest(S), dflt, Highest(S)}

\* How many widget edits a session of the model makes.
MaxEdits == 1

VARIABLES
  pc,                     \* where the script run is, or "done" / "crashed"
  edits,                  \* widget edits so far
  exception,              \* the uncaught exception of a crashed run, or "none"
  warning,                \* whether st.warning was shown (line 29)
  latest_oil_price, usd_to_ugx,
  oil_price_input,        \* what the user typed into the oil price widget
  oil_price, production, capex, opex_per_bbl, depreciation_rate,
  royalty_rate, tax_rate, discount_rate, project_life,
  annual_production, revenue, opex_total, royalty, depreciation,
  profit_before_tax, tax, after_tax_profit, cash_flow,
  years, revenues, opex, royalties, depreciations, taxes, cash_flows,
  discounted_cash_flows, npv, irr,
  metrics, data, chart, pdf

widgets == <<oil_price_input, production, capex, opex_per_bbl, depreciation_rate,
             royalty_rate, tax_rate, discount_rate, project_life>>
fetched == <<warning, latest_oil_price, usd_to_ugx>>
computed == <<annual_production, revenue, opex_total, royalty, depreciation,
              profit_before_tax, tax, after_tax_profit, cash_flow,
              years, revenues, opex, royalties, depreciations, taxes, cash_flows,
              discounted_cash_flows, npv, irr>>
shown == <<metrics, data, chart, pdf>>
vars == <<pc, edits, exception, widgets, oil_price, fetched, computed, shown>>

\* a script variable not assigned in this run
Unset == [k |-> "unset"]
NoInput == [set |-> FALSE]

\* Every run starts with an empty namespace and an empty page.
FreshRun ==
  /\ pc' = "fetch_oil"
  /\ exception' = "none"
  /\ warning' = FALSE
  /\ latest_oil_price' = Unset /\ usd_to_ugx' = Unset /\ oil_price' = Unset
  /\ annual_production' = Unset /\ revenue' = Unset /\ opex_total' = Unset
  /\ royalty' = Unset /\ depreciation' = Unset /\ profit_before_tax' = Unset
  /\ tax' = Unset /\ after_tax_profit' = Unset /\ cash_flow' = Unset
  /\ years' = Unset /\ revenues' = Unset /\ opex' = Unset /\ royalties' = Unset
  /\ depreciations' = Unset /\ taxes' = Unset /\ cash_flows' = Unset
  /\ discounted_cash_flows' = Unset /\ npv' = Unset /\ irr' = Unset
  /\ metrics' = Unset /\ data' = Unset /\ chart' = Unset /\ pdf' = Unset

DefaultWidgets ==
  /\ oil_price_input = NoInput
  /\ production = default_production
  /\ capex = default_capex
  /\ opex_per_bbl = default_opex_per_bbl
  /\ depreciation_rate = default_depreciation_rate
  /\ royalty_rate = default_royalty_rate
  /\ tax_rate = default_tax_rate
  /\ discount_rate = default_discount_rate
  /\ project_life = default_project_life

\* The session opens: the first run starts with every widget at its default.
Init ==
  /\ pc = "fetch_oil" /\ edits = 0 /\ exception = "none" /\ warning = FALSE
  /\ DefaultWidgets
  /\ latest_oil_price = Unset /\ usd_to_ugx = Unset /\ oil_price = Unset
  /\ annual_production = Unset /\ revenue = Unset /\ opex_total = Unset
  /\ royalty = Unset /\ depreciation = Unset /\ profit_before_tax = Unset
  /\ tax = Unset /\ after_tax_profit = Unset /\ cash_flow = Unset
  /\ years = Unset /\ revenues = Unset /\ opex = Unset /\ royalties = Unset
  /\ depreciations = Unset /\ taxes = Unset /\ cash_flows = Unset
  /\ discounted_cash_flows = Unset /\ npv = Unset /\ irr = Unset
  /\ metrics = Unset /\ data = Unset /\ chart = Unset /\ pdf = Unset

(***************************************************************************)
(* FETCH REAL ECONOMIC DATA, lines 24-34.                                  *)
(***************************************************************************)
\* lines 25-27: yfinance answers with a closing price
FetchOilOk ==
  /\ pc = "fetch_oil"
  /\ \E p \in FetchedPrices : latest_oil_price' = p
  /\ pc' = "fetch_fx"
  /\ UNCHANGED <<edits, exception, widgets, oil_price, warning, usd_to_ugx,
                 computed, shown>>

\* lines 28-30: any exception of the download is caught
FetchOilFail ==
  /\ pc = "fetch_oil"
  /\ warning' = TRUE
  /\ latest_oil_price' = fallback_oil_price
  /\ pc' = "fetch_fx"
  /\ UNCHANGED <<edits, exception, widgets, oil_price, usd_to_ugx, computed, shown>>

\* lines 33-34: the service answers with a UGX rate
FetchFxOk ==
  /\ pc = "fetch_fx"
  /\ \E r \in FetchedRates : usd_to_ugx' = r
  /\ pc' = "inputs"
  /\ UNCHANGED <<edits, exception, widgets, oil_price, warning, latest_oil_price,
                 computed, shown>>

\* line 34: the answer has no rates.UGX, .get falls back
FetchFxNoRate ==
  /\ pc = "fetch_fx"
  /\ usd_to_ugx' = default_usd_to_ugx
  /\ pc' = "inputs"
  /\ UNCHANGED <<edits, exception, widgets, oil_price, warning, latest_oil_price,
                 computed, shown>>

\* lines 33-34 stand outside any try: an exception of requests.get or .json()
\* ends the run. No widget was rendered, so Streamlit drops the widgets' state.
FetchFxFail ==
  /\ pc = "fetch_fx"
  /\ \E e \in {"ConnectionError", "JSONDecodeError"} : exception' = e
  /\ pc' = "crashed"
  /\ oil_price_input' = NoInput
  /\ production' = default_production
  /\ capex' = default_capex
  /\ opex_per_bbl' = default_opex_per_bbl
  /\ depreciation_rate' = default_depreciation_rate
  /\ royalty_rate' = default_royalty_rate
  /\ tax_rate' = default_tax_rate
  /\ discount_rate' = default_discount_rate
  /\ project_life' = default_project_life
  /\ UNCHANGED <<edits, oil_price, fetched, computed, shown>>

(***************************************************************************)
(* SIDEBAR - INPUTS, lines 39-49.  Each widget returns the value the       *)
(* session holds for it.  The oil price widget has no key: when its        *)
(* default (the rounded fetched price) changes, what the user typed under  *)
(* the former default is forgotten.                                        *)
(***************************************************************************)
OilPriceDefault(latest) == Round2(latest)

Inputs ==
  /\ pc = "inputs"
  /\ LET dflt == OilPriceDefault(latest_oil_price)
     IN  IF oil_price_input # NoInput /\ oil_price_input.under = dflt
           THEN /\ oil_price' = oil_price_input.value
                /\ UNCHANGED oil_price_input
           ELSE /\ oil_price' = dflt
                /\ oil_price_input' = NoInput
  /\ pc' = "compute"
  /\ UNCHANGED <<edits, exception, production, capex, opex_per_bbl, depreciation_rate,
                 royalty_rate, tax_rate, discount_rate, project_life,
                 fetched, computed, shown>>

(***************************************************************************)
(* COMPUTATION, lines 54-77.                                               *)
(***************************************************************************)
Compute ==
  /\ pc = "compute"
  /\ annual_production' = AnnualProduction(production)
  /\ revenue' = Revenue(oil_price, annual_production')
  /\ opex_total' = OpexTotal(opex_per_bbl, annual_production')
  /\ royalty' = Royalty(revenue', royalty_rate)
  /\ depreciation' = Depreciation(capex, depreciation_rate)
  /\ profit_before_tax' = ProfitBeforeTax(revenue', opex_total', depreciation', royalty')
  /\ tax' = Tax(profit_before_tax', tax_rate)
  /\ after_tax_profit' = AfterTaxProfit(profit_before_tax', tax')
  /\ cash_flow' = CashFlow(after_tax_profit', depreciation')
  /\ years' = Years(project_life)
  /\ revenues' = repeat(revenue', project_life)
  /\ opex' = repeat(opex_total', project_life)
  /\ royalties' = repeat(royalty', project_life)
  /\ depreciations' = repeat(depreciation', project_life)
  /\ taxes' = repeat(tax', project_life)
  /\ cash_flows' = repeat(cash_flow', project_life)
  /\ discounted_cash_flows' = DiscountedCashFlows(cash_flows', discount_rate, years')
  /\ npv' = Npv(discount_rate, capex, cash_flows')
  /\ irr' = Irr(capex, cash_flows')
  /\ pc' = "display"
  /\ UNCHANGED <<edits, exception, widgets, oil_price, fetched, shown>>

(***************************************************************************)
(* DASHBOARD DISPLAY, lines 82-102.                                        *)
(***************************************************************************)
Row(i) ==
  [Year |-> years[i], Revenue |-> revenues[i], OPEX |-> opex[i],
   Royalty |-> royalties[i], Depreciation |-> depreciations[i],
   Tax |-> taxes[i], NetCashFlow |-> cash_flows[i]]

Display ==
  /\ pc = "display"
  /\ metrics' = [NPV |-> Format2f(npv), IRR |-> Format2f(irr),
                 Revenue |-> Format2f(Num(revenue))]
  /\ data' = Tab([i \in 1..Len(years) |-> Row(i)])
  /\ chart' = Tab([i \in 1..Len(years) |-> <<years[i], cash_flows[i]>>])
  /\ pc' = "export"
  /\ UNCHANGED <<edits, exception, widgets, oil_price, fetched, computed, pdf>>

(***************************************************************************)
(* PDF EXPORT WITH CHART, lines 107-154.                                   *)
(***************************************************************************)
Export ==
  /\ pc = "export"
  /\ pdf' = [OilPrice |-> Round2(oil_price), Production |-> production,
             CAPEX |-> capex, OPEX |-> Round2(opex_per_bbl),
             DepreciationRate |-> depreciation_rate, RoyaltyRate |-> royalty_rate,
             TaxRate |-> tax_rate, DiscountRate |-> discount_rate,
             ProjectLife |-> project_life,
             NPV |-> Format2f(npv), IRR |-> Format2f(irr),
             Revenue |-> Format2f(Num(revenue)),
             image |-> Tab([i \in 1..Len(years) |-> <<years[i], cash_flows[i]>>])]
  /\ pc' = "done"
  /\ UNCHANGED <<edits, exception, widgets, oil_price, fetched, computed,
                 metrics, data, chart>>

(***************************************************************************)
(* The user.  Changing a widget stores the new value in the session and    *)
(* runs the script again from the top; so does a plain rerun.  Widgets     *)
(* exist only on a page whose run reached line 40.                         *)
(***************************************************************************)
CanEdit == pc = "done" /\ edits < MaxEdits

Edited == edits' = edits + 1 /\ FreshRun

EditOilPrice ==
  /\ CanEdit
  /\ \E v \in OilPriceInputs \ {oil_price} :
       oil_price_input' = [set |-> TRUE, value |-> v,
                           under |-> OilPriceDefault(latest_oil_price)]
  /\ Edited
  /\ UNCHANGED <<production, capex, opex_per_bbl, depreciation_rate, royalty_rate,
                 tax_rate, discount_rate, project_life>>

EditProduction ==
  /\ CanEdit
  /\ \E v \in ProductionInputs \ {production} : production' = v
  /\ Edited
  /\ UNCHANGED <<oil_price_input, capex, opex_per_bbl, depreciation_rate, royalty_rate,
                 tax_rate, discount_rate, project_life>>

EditCapex ==
  /\ CanEdit
  /\ \E v \in CapexInputs \ {capex} : capex' = v
  /\ Edited
  /\ UNCHANGED <<oil_price_input, production, opex_per_bbl, depreciation_rate,
                 royalty_rate, tax_rate, discount_rate, project_life>>

EditOpex ==
  /\ CanEdit
  /\ \E v \in OpexInputs \ {opex_per_bbl} : opex_per_bbl' = v
  /\ Edited
  /\ UNCHANGED <<oil_price_input, production, capex, depreciation_rate, royalty_rate,
                 tax_rate, discount_rate, project_life>>

SelectDepreciation ==
  /\ CanEdit
  /\ \E v \in DepreciationOptions \ {depreciation_rate} : depreciation_rate' = v
  /\ Edited
  /\ UNCHANGED <<oil_price_input, production, capex, opex_per_bbl, royalty_rate,
                 tax_rate, discount_rate, project_life>>

SlideRoyalty ==
  /\ CanEdit
  /\ \E v \in Stops(RoyaltyRates, default_royalty_rate) \ {royalty_rate} :
       royalty_rate' = v
  /\ Edited
  /\ UNCHANGED <<oil_price_input, production, capex, opex_per_bbl, depreciation_rate,
                 tax_rate, discount_rate, project_life>>

SlideTax ==
  /\ CanEdit
  /\ \E v \in Stops(TaxRates, default_tax_rate) \ {tax_rate} : tax_rate' = v
  /\ Edited
  /\ UNCHANGED <<oil_price_input, production, capex, opex_per_bbl, depreciation_rate,
                 royalty_rate, discount_rate, project_life>>

SlideDiscount ==
  /\ CanEdit
  /\ \E v \in Stops(DiscountRates, default_discount_rate) \ {discount_rate} :
       discount_rate' = v
  /\ Edited
  /\ UNCHANGED <<oil_price_input, production, capex, opex_per_bbl, depreciation_rate,
                 royalty_rate, tax_rate, project_life>>

SlideProjectLife ==
  /\ CanEdit
  /\ \E v \in Stops(ProjectLives, default_project_life) \ {project_life} :
       project_life' = v
  /\ Edited
  /\ UNCHANGED <<oil_price_input, production, capex, opex_per_bbl, depreciation_rate,
                 royalty_rate, tax_rate, discount_rate>>

Rerun ==
  /\ pc \in {"done", "crashed"}
  /\ FreshRun
  /\ UNCHANGED <<edits, widgets>>

Next ==
  \/ FetchOilOk \/ FetchOilFail
  \/ FetchFxOk \/ FetchFxNoRate \/ FetchFxFail
  \/ Inputs \/ Compute \/ Display \/ Export
  \/ EditOilPrice \/ EditProduction \/ EditCapex \/ EditOpex
  \/ SelectDepreciation \/ SlideRoyalty \/ SlideTax \/ SlideDiscount
  \/ SlideProjectLife \/ Rerun

Spec == Init /\ [][Next]_vars

(***************************************************************************)
(* The computation block on its own.  Lines 54-77 read nine names and      *)
(* check none of them, so what they do with a value is a property of the   *)
(* block whether or not a widget can deliver that value.  SpecEngine       *)
(* starts the run at line 54 with the names bound to values drawn from the *)
(* sets below, which include rates and lives outside the sliders' ranges.  *)
(***************************************************************************)
EngineOilPrices == {RInt(75), RInt(12)}
EngineCapex == {4000, 100}
EngineDepreciationRates == {10, 20}
EngineDiscountRates == {-150, -100, 5, 10}
EngineProjectLives == {0, 1, 5, 10}

InitEngine ==
  /\ pc = "compute" /\ edits = 0 /\ exception = "none" /\ warning = FALSE
  /\ latest_oil_price = fallback_oil_price /\ usd_to_ugx = default_usd_to_ugx
  /\ oil_price_input = NoInput
  /\ oil_price \in EngineOilPrices
  /\ production = default_production
  /\ capex \in EngineCapex
  /\ opex_per_bbl = default_opex_per_bbl
  /\ depreciation_rate \in EngineDepreciationRates
  /\ royalty_rate = default_royalty_rate
  /\ tax_rate = default_tax_rate
  /\ discount_rate \in EngineDiscountRates
  /\ project_life \in EngineProjectLives
  /\ annual_production = Unset /\ revenue = Unset /\ opex_total = Unset
  /\ royalty = Unset /\ depreciation = Unset /\ profit_before_tax = Unset
  /\ tax = Unset /\ after_tax_profit = Unset /\ cash_flow = Unset
  /\ years = Unset /\ revenues = Unset /\ opex = Unset /\ royalties = Unset
  /\ depreciations = Unset /\ taxes = Unset /\ cash_flows = Unset
  /\ discounted_cash_flows = Unset /\ npv = Unset /\ irr = Unset
  /\ metrics = Unset /\ data = Unset /\ chart = Unset /\ pdf = Unset

NextEngine == Compute \/ Display \/ Export

SpecEngine == InitEngine /\ [][NextEngine]_vars

(***************************************************************************)
(* Properties.                                                             *)
(***************************************************************************)
\* the run has passed line 77 / line 102 / line 154
Computed == pc \in {"display", "export", "done"}
Displayed == pc \in {"export", "done"}
Exported == pc = "done"

FLess(x, y) == IsNum(x) /\ IsNum(y) /\ RLt(x.v, y.v)
Pct(rate) == RDiv(RInt(rate), RInt(100))

\* C1: the schedule has project_life rows, the rows' years are 1, 2, ...,
\* project_life, and the six amounts are the same in every row.
C1_ScheduleShape ==
  /\ Computed =>
       /\ Len(years) = project_life
       /\ \A i \in 1..Len(years) : years[i] = i
       /\ \A a \in {revenues, opex, royalties, depreciations, taxes, cash_flows} :
            Len(a) = project_life /\ \A i \in 1..Len(a) : a[i] = a[1]
  /\ Displayed =>
       /\ Len(data) = project_life
       /\ \A i \in 1..Len(data) : data[i] = [data[1] EXCEPT !.Year = i]
       /\ Len(data) > 0 => data[1].Year = 1

C1_Witness ==
  /\ Exported /\ project_life = 20 /\ Len(data) = 20
  /\ data[20].Year = 20 /\ data[20].NetCashFlow = cash_flow

\* Scenario A of the specification, and the amounts it expects.
ScenarioA ==
  /\ oil_price = RInt(75) /\ production = 200000 /\ capex = 4000
  /\ opex_per_bbl = RInt(12) /\ depreciation_rate = 20 /\ royalty_rate = 10
  /\ tax_rate = 30 /\ discount_rate = 10 /\ project_life = 10

ScenarioAResult ==
  /\ revenue = RInt(5475) /\ opex_total = RInt(876) /\ royalty = Dec(5475, 1)
  /\ depreciation = RInt(800) /\ profit_before_tax = Dec(32515, 1)
  /\ tax = Dec(97545, 2) /\ after_tax_profit = Dec(227605, 2)
  /\ cash_flow = Dec(307605, 2)

\* C2: the nine amounts follow the formulas of the computation, and Scenario A
\* gives revenue 5475, opex 876, royalty 547.5, depreciation 800, tax 975.45,
\* after-tax profit 2276.05 and net cash flow 3076.05.
C2_Formulas ==
  Computed =>
    /\ revenue = RDiv(RMul(RMul(oil_price, RInt(production)), RInt(365)), RInt(10^6))
    /\ opex_total = RDiv(RMul(RMul(opex_per_bbl, RInt(production)), RInt(365)), RInt(10^6))
    /\ royalty = RMul(revenue, Pct(royalty_rate))
    /\ depreciation = RMul(RInt(capex), Pct(depreciation_rate))
    /\ profit_before_tax = RSub(revenue, RAdd(RAdd(opex_total, depreciation), royalty))
    /\ tax = RMul(profit_before_tax, Pct(tax_rate))
    /\ cash_flow = RAdd(RSub(profit_before_tax, tax), depreciation)
    /\ ScenarioA => ScenarioAResult

C2_Witness == Exported /\ ScenarioA /\ ScenarioAResult /\ data[10].Tax = Dec(97545, 2)

NoSignChange == SignChanges(Stream(capex, cash_flows)) = 0

\* C4: a run whose stream [-capex, cf, ..., cf] has no sign change ends with the
\* outcome NoRootFound, and neither the IRR metric nor the report's IRR line
\* is given a NaN.
C4_NoRootFound ==
  (Exported /\ NoSignChange) =>
    (exception = "NoRootFound" /\ metrics.IRR # NaN /\ pdf.IRR # NaN)

\* the NPV of the run's stream at the rate r
NpvAt(r) == npf_npv(r, Stream(capex, cash_flows))

Profitable == capex > 0 /\ RLt(Zero, cash_flow)

C6_NpvDecreasing ==
  (pc = "display" /\ Profitable /\ project_life \in ProjectLives) =>
    LET at == Tab([d \in DiscountRates |-> Npv(d, capex, cash_flows)])
    IN  /\ discount_rate \in DiscountRates => npv = at[discount_rate]
        /\ \A d \in DiscountRates \ {Highest(DiscountRates)} : FLess(at[d + 1], at[d])

C6_Witness ==
  /\ pc = "display" /\ Profitable /\ project_life = 10 /\ discount_rate = 5
  /\ FLess(Npv(15, capex, cash_flows), npv)

\* the results of the computation block for the widgets' values alone
ProjectCashFlow ==
  LET ap == AnnualProduction(production)
      rev == Revenue(oil_price, ap)
      dep == Depreciation(capex, depreciation_rate)
      pbt == ProfitBeforeTax(rev, OpexTotal(opex_per_bbl, ap), dep, Royalty(rev, royalty_rate))
  IN  CashFlow(AfterTaxProfit(pbt, Tax(pbt, tax_rate)), dep)

\* C7: every run reaches the computation whatever the two fetches did, and
\* its results are those the assumptions alone determine.
C7_FetchIndependent ==
  /\ pc # "crashed"
  /\ Computed =>
       /\ cash_flows = repeat(ProjectCashFlow, project_life)
       /\ npv = Npv(discount_rate, capex, cash_flows)
       /\ irr = Irr(capex, cash_flows)

\* C8: the values the computation starts from are within the data model's
\* ranges.
C8_ValidAssumptions ==
  pc = "compute" =>
    /\ RLt(Zero, oil_price) /\ production >= 0 /\ capex > 0
    /\ RLe(Zero, opex_per_bbl)
    /\ depreciation_rate \in {10, 20, 25, 30}
    /\ royalty_rate \in 5..15 /\ tax_rate \in 25..35
    /\ discount_rate \in 5..15 /\ project_life \in 5..20

\* C9: the tax is profit_before_tax * tax_rate / 100 whatever the sign, negative
\* for a loss; the cash flow is profit_before_tax * (1 - tax_rate/100) plus the
\* depreciation; and every row of the schedule carries that tax.
C9_TaxNotFloored ==
  /\ Computed =>
       /\ tax = RMul(profit_before_tax, Pct(tax_rate))
       /\ RLt(profit_before_tax, Zero) => RLt(tax, Zero)
       /\ cash_flow = RAdd(RMul(profit_before_tax, RSub(One, Pct(tax_rate))), depreciation)
       /\ \A i \in 1..Len(taxes) : taxes[i] = tax
  /\ Displayed => \A i \in 1..Len(data) : data[i].Tax = tax

C9_Witness ==
  /\ Exported /\ RLt(profit_before_tax, Zero) /\ RLt(tax, Zero)
  /\ data[project_life].Tax = tax

\* C10: the npv is over a stream of project_life + 1 values; it is -capex,
\* undiscounted, plus the cash flows of the years t = 1..project_life each
\* divided by (1 + discount_rate/100)^t, which is what discounted_cash_flows
\* holds.
C10_NpvIsDiscountedSum ==
  Computed =>
    /\ Len(Stream(capex, cash_flows)) = project_life + 1
    /\ Len(discounted_cash_flows) = project_life
    /\ \A t \in 1..project_life :
         /\ IsNum(discounted_cash_flows[t])
         /\ RMul(discounted_cash_flows[t].v, RPow(RAdd(One, Pct(discount_rate)), t))
              = cash_flow
    /\ npv = FAdd(Num(RInt(-capex)), FSum(discounted_cash_flows))

C10_Witness ==
  /\ Exported /\ discount_rate = 15 /\ project_life = 10
  /\ IsNum(npv) /\ npv = FAdd(Num(RInt(-4000)), FSum(discounted_cash_flows))

=============================================================================
